---- MODULE Spec2Model ----
(***************************************************************************)
(* MolekuleApi (custom_components/molekule/api.py): the session and        *)
(* authentication lifecycle and the retrying request pipeline, run by      *)
(* concurrent asyncio coroutines on one client.                            *)
(*                                                                         *)
(* pc[t] names the suspension point coroutine t is parked at; one action   *)
(* is the event that resumes it together with all the code it then runs    *)
(* up to its next suspension point.  Every lock acquisition is treated as  *)
(* a suspension point.  asyncio.Lock is not reentrant: a coroutine that    *)
(* asks for a lock it holds waits like any other.                          *)
(*                                                                         *)
(* Time is in minutes.  The credential provider (warrant.Cognito, run in   *)
(* the ThreadPoolExecutor) accepts or rejects and returns any token; a     *)
(* job of the single worker thread that outlives its cancelled caller      *)
(* only delays the next job, which the provider's arbitrary latency        *)
(* already covers.  An HTTP attempt ends with status 200, 204, 401, any    *)
(* other status ("500") or a transport failure ("fail").                   *)
(*                                                                         *)
(* The history variables (outcomes, sleeps, authCalls, refreshCalls,       *)
(* entry, result, cancelPoint) record what the operation of an observed    *)
(* coroutine did; they are written, never read, by the actions.            *)
(***************************************************************************)
EXTENDS Integers, Sequences, FiniteSets, TLC

\* ---- bounds of the model ------------------------------------------------
NumTokens == 2
MaxSessions == 4
MaxNow == 110
TickStep == 55
MaxItems == 2
MaxSeries == 2
MaxPollutants == 2
MaxDevices == 2

\* ---- program constants --------------------------------------------------
retry_attempts == 3
retry_delay == 1
TokenLifetime == 60
RefreshMargin == 5

\* the concurrent coroutines of the model
Tasks == {1, 2}
Tokens == 1..NumTokens
SessionIds == 1..MaxSessions
NoToken == 0
NoSession == 0
NoTime == -1
Free == 0

Statuses == {"200", "204", "401", "500", "fail"}

VARIABLES
  \* MolekuleApi fields
  session,            \* self._session: NoSession (None) or a session id
  sessOpen,           \* the aiohttp sessions that are not closed
  token,              \* self.token
  token_expiration,   \* self.token_expiration (minutes), NoTime when None
  cognito,            \* self.cognito is set
  executor,           \* self.executor: "up" or "shutdown"
  session_lock,       \* self._session_lock: Free or the holding task
  auth_lock,          \* self._auth_lock: Free or the holding task
  now,                \* datetime.now(), in minutes
  \* per task
  pc, op, cont, attempt, headers, client_session,
  \* per task, history of the current (or last) operation
  outcomes, sleeps, authCalls, refreshCalls, entry, result, cancelPoint,
  \* one call of a pure function: its argument, its result, and the result
  \* of applying the function to that result
  arg, ret, ret2,
  \* the config entry (__init__.py) and the entities calling the client
  cpc,                \* where async_setup_entry / the refresh tick / a command is
  coordinator,        \* the DataUpdateCoordinator was created (line 97)
  ready,              \* async_setup_entry returned True
  data,               \* coordinator.data: the snapshot readers see
  processed_data,     \* async_update_data's processed_data
  idx,                \* the loop of line 40: index of the device in hand
  call,               \* the client operation in progress and its arguments
  request,            \* the arguments it passed to _make_request
  \* history of the setup, the current (or last) tick and the last command
  \* (devices_body: the response body get_devices parsed, before line 167)
  setupAuth, tickResult, tickBase, devices_data, devices_body, queried, invoked, wres, wret

\* the tasks whose history is recorded (the tasks are interchangeable)
Observed == {1}

shared == <<session, sessOpen, token, token_expiration, cognito, executor,
            session_lock, auth_lock, now>>
locals == <<pc, op, cont, attempt, headers, client_session>>
history == <<outcomes, sleeps, authCalls, refreshCalls, entry, result, cancelPoint>>
pure == <<arg, ret, ret2>>
\* the state outside the MolekuleApi object and its coroutines
coord == <<cpc, coordinator, ready, data, processed_data, idx, call, request,
           setupAuth, tickResult, tickBase, devices_data, devices_body, queried, invoked, wres,
           wret>>
extern == <<pure, coord>>
vars == <<shared, locals, history, extern>>

\* ---- helpers modelling conditions and expressions of the code -----------

\* ensure_token_valid, line 115: not self.token or not self.token_expiration
TokenAbsent == token = NoToken \/ token_expiration = NoTime

\* the margin test with > in place of >=
TokenStale_Strict == now > token_expiration - RefreshMargin

\* ensure_token_valid, line 117: now >= expiration - 5 minutes
TokenStale == now >= token_expiration - RefreshMargin

\* ensure_token_valid: which coroutine it awaits
EnsureBranch ==
  IF TokenAbsent THEN "authenticate"
  ELSE IF TokenStale THEN "refresh_token"
  ELSE "none"

\* a session property that constructs a session on every call
SessionMissing_Always == TRUE

\* session property, line 58: self._session is None or self._session.closed
SessionMissing == session = NoSession \/ session \notin sessOpen

\* a close that finds no session to close
SessionIsOpen_Never == FALSE

\* close, line 277: self._session and not self._session.closed
SessionIsOpen == session # NoSession /\ session \in sessOpen

\* authenticate and refresh_token without the auth lock
AuthLockFree_Unguarded == TRUE

\* async with self._auth_lock (lines 70, 100): the lock can be taken
AuthLockFree == auth_lock = Free

\* async with self._session_lock (lines 57, 276): the lock can be taken
SessionLockFree == session_lock = Free

\* an `async with` block that keeps its lock on exit
Released_Held(lock, t) == lock

\* __aexit__ of async with: the lock after task t leaves the block
Released(lock, t) == IF lock = t THEN Free ELSE lock

\* the backoff without the linear scaling
BackoffDelay_Flat(a) == retry_delay

\* line 155: self._retry_delay * (attempt + 1)
BackoffDelay(a) == retry_delay * (a + 1)

\* a retry branch that never gives up
MayRetry_Always(a) == TRUE

\* line 154: attempt + 1 < self._retry_attempts
MayRetry(a) == a + 1 < retry_attempts

\* a `continue` that does not use up a loop iteration
NextAttempt_Same(a) == a

\* the loop index after `continue` (line 136) or after the retry branch
NextAttempt(a) == a + 1

\* lines 77, 107: datetime.now() + timedelta(hours=1)
NewExpiration == now + TokenLifetime

\* a close that leaves the executor running
ExecutorAfterClose_Kept == executor

\* close, lines 281-282: executor.shutdown(wait=False)
ExecutorAfterClose == "shutdown"

\* a close that clears the token
TokenAfterClose_Cleared == NoToken

\* close never touches self.token / self.token_expiration (lines 274-282)
TokenAfterClose == token

\* a session object that nothing refers to any more (a new ClientSession)
UnusedSessions ==
  {s \in SessionIds : s \notin sessOpen /\ s # session
                        /\ \A u \in Tasks : client_session[u] # s}

\* ---- initial state: MolekuleApi.__init__, lines 39-52 --------------------
InitApi ==
  /\ session = NoSession
  /\ sessOpen = {}
  /\ token = NoToken
  /\ token_expiration = NoTime
  /\ cognito = FALSE
  /\ executor = "up"
  /\ session_lock = Free
  /\ auth_lock = Free
  /\ now = 0
  /\ pc = [t \in Tasks |-> "idle"]
  /\ op = [t \in Tasks |-> "none"]
  /\ cont = [t \in Tasks |-> "none"]
  /\ attempt = [t \in Tasks |-> 0]
  /\ headers = [t \in Tasks |-> NoToken]
  /\ client_session = [t \in Tasks |-> NoSession]
  /\ outcomes = [t \in Tasks |-> <<>>]
  /\ sleeps = [t \in Tasks |-> <<>>]
  /\ authCalls = [t \in Tasks |-> 0]
  /\ refreshCalls = [t \in Tasks |-> 0]
  /\ entry = [t \in Tasks |-> "none"]
  /\ result = [t \in Tasks |-> "none"]
  /\ cancelPoint = [t \in Tasks |-> "none"]

\* no pure function has been called
Unset == [tag |-> "unset"]
InitPure == arg = Unset /\ ret = Unset /\ ret2 = Unset

\* None, and no call in progress
NoneValue == [tag |-> "none"]
NoCall == [name |-> "none"]

\* the config entry before async_setup_entry
InitCoord ==
  /\ cpc = "new"
  /\ coordinator = FALSE
  /\ ready = FALSE
  /\ data = NoneValue
  /\ processed_data = NoneValue
  /\ idx = 0
  /\ call = NoCall
  /\ request = NoneValue
  /\ setupAuth = "none"
  /\ tickResult = "none"
  /\ tickBase = NoneValue
  /\ devices_data = NoneValue
  /\ devices_body = NoneValue
  /\ queried = <<>>
  /\ invoked = [op |-> "none"]
  /\ wres = "none"
  /\ wret = Unset

Init == InitApi /\ InitPure /\ InitCoord

\* ---- how a coroutine begins, goes on and ends ------------------------------

\* the history f with the entry of an observed task t set to v
Hist(f, t, v) == IF t \in Observed THEN [f EXCEPT ![t] = v] ELSE f

\* task t begins operation o, which first parks at l, with a authenticate()
\* and r refresh_token() calls made on the way
Begin(t, o, l, c, e, a, r) ==
  /\ pc' = [pc EXCEPT ![t] = l]
  /\ op' = [op EXCEPT ![t] = o]
  /\ cont' = [cont EXCEPT ![t] = c]
  /\ attempt' = [attempt EXCEPT ![t] = 0]
  /\ outcomes' = Hist(outcomes, t, <<>>)
  /\ sleeps' = Hist(sleeps, t, <<>>)
  /\ result' = Hist(result, t, "none")
  /\ cancelPoint' = Hist(cancelPoint, t, "none")
  /\ entry' = Hist(entry, t, e)
  /\ authCalls' = Hist(authCalls, t, a)
  /\ refreshCalls' = Hist(refreshCalls, t, r)
  /\ UNCHANGED <<shared, headers, client_session>>

\* the operation of task t returns or raises r; its locals are gone
Finish(t, r) ==
  /\ pc' = [pc EXCEPT ![t] = "idle"]
  /\ result' = Hist(result, t, r)
  /\ op' = [op EXCEPT ![t] = IF t \in Observed THEN @ ELSE "none"]
  /\ attempt' = [attempt EXCEPT ![t] = IF t \in Observed THEN @ ELSE 0]
  /\ client_session' = [client_session EXCEPT ![t] = NoSession]
  /\ headers' = [headers EXCEPT ![t] = NoToken]
  /\ cont' = [cont EXCEPT ![t] = "none"]

\* the coroutine of task t goes on to the suspension point l
Goto(t, l) ==
  /\ pc' = [pc EXCEPT ![t] = l]
  /\ UNCHANGED <<result, op, attempt, client_session, headers, cont>>

\* the code after `await self.close()`: line 157 inside _make_request,
\* the caller otherwise
AfterClose(t) ==
  IF op[t] = "request" THEN Goto(t, "sess_lock") ELSE Finish(t, "ok")

\* _make_request, line 124: await self.ensure_token_valid()
EnterRequest(t) ==
  Begin(t, "request",
        CASE EnsureBranch = "authenticate" -> "auth_lock"
          [] EnsureBranch = "refresh_token" -> "ref_lock"
          [] OTHER -> "sess_lock",
        "ensure", EnsureBranch,
        IF EnsureBranch = "authenticate" THEN 1 ELSE 0,
        IF EnsureBranch = "refresh_token" THEN 1 ELSE 0)

\* authenticate(), line 70: async with self._auth_lock
EnterAuthenticate(t) == Begin(t, "authenticate", "auth_lock", "top", "none", 1, 0)

\* close(), line 276: async with self._session_lock
EnterClose(t) == Begin(t, "close", "close_lock", "top", "none", 0, 0)

\* a request of an idle task (any of the client's operations, lines 163-272)
StartRequest(t) ==
  /\ pc[t] = "idle"
  /\ EnterRequest(t)
  /\ UNCHANGED extern

\* a direct call of authenticate() (async_setup_entry, line 25)
StartAuthenticate(t) ==
  /\ pc[t] = "idle"
  /\ EnterAuthenticate(t)
  /\ UNCHANGED extern

\* a direct call of close() (async_setup_entry line 27, async_unload_entry)
StartClose(t) ==
  /\ pc[t] = "idle"
  /\ EnterClose(t)
  /\ UNCHANGED extern

\* ---- authenticate, lines 68-81 -------------------------------------------

\* an authenticate() / refresh_token() that looks at the token again once
\* it has the lock, and returns when ensure_token_valid has nothing left to do
CallNeeded_Rechecked(t) == ~(cont[t] = "ensure" /\ EnsureBranch = "none")

\* lines 70-73 and 100-103: between taking the auth lock and submitting the
\* provider call nothing is tested
CallNeeded(t) == TRUE

\* the task gets the auth lock and submits _create_and_authenticate_cognito;
\* run_in_executor raises RuntimeError on an executor that was shut down,
\* which line 79 turns into AuthenticationError
AuthAcquire(t) ==
  /\ pc[t] = "auth_lock"
  /\ AuthLockFree
  /\ IF ~CallNeeded(t)
     THEN /\ auth_lock' = Free
          /\ Goto(t, "sess_lock")
     ELSE IF executor = "shutdown"
          THEN /\ auth_lock' = Free
               /\ Finish(t, "AuthenticationError")
          ELSE /\ auth_lock' = t
               /\ Goto(t, "auth_call")
  /\ UNCHANGED <<session, sessOpen, token, token_expiration, cognito, executor,
                 session_lock, now,
                 outcomes, sleeps, authCalls, refreshCalls, entry, cancelPoint>>
  /\ UNCHANGED extern

\* a loop that ends by raising when its iterations are used up
LoopExhausted_Raises == "ApiConnectionError"

\* line 161: the `return None` after the for loop, reached when the last
\* iteration ended with `continue`
LoopExhausted == "absent"

\* the credential provider accepts: lines 76-78, then the caller goes on
\* (line 135-136 after a 401: new header, next loop iteration, next attempt
\* on the session the request already holds; a closed session makes
\* ClientSession.request raise RuntimeError, which line 151 does not catch)
AuthSucceeds(t, tok) ==
  /\ pc[t] = "auth_call"
  /\ cognito' = TRUE
  /\ token' = tok
  /\ token_expiration' = NewExpiration
  /\ auth_lock' = Released(auth_lock, t)
  /\ CASE cont[t] = "top" -> Finish(t, "ok")
       [] cont[t] = "ensure" -> Goto(t, "sess_lock")
       [] OTHER ->
            IF NextAttempt(attempt[t]) < retry_attempts
            THEN IF client_session[t] \in sessOpen
                 THEN /\ pc' = [pc EXCEPT ![t] = "http_wait"]
                      /\ headers' = [headers EXCEPT ![t] = tok]
                      /\ attempt' = [attempt EXCEPT ![t] = NextAttempt(@)]
                      /\ UNCHANGED <<result, op, client_session, cont>>
                 ELSE Finish(t, "RuntimeError")
            ELSE Finish(t, LoopExhausted)
  /\ UNCHANGED <<session, sessOpen, executor, session_lock, now,
                 outcomes, sleeps, authCalls, refreshCalls, entry, cancelPoint>>
  /\ UNCHANGED extern

\* the credential provider rejects: lines 79-81 raise AuthenticationError,
\* which no caller inside the client catches
AuthFails(t) ==
  /\ pc[t] = "auth_call"
  /\ auth_lock' = Released(auth_lock, t)
  /\ Finish(t, "AuthenticationError")
  /\ UNCHANGED <<session, sessOpen, token, token_expiration, cognito, executor,
                 session_lock, now,
                 outcomes, sleeps, authCalls, refreshCalls, entry, cancelPoint>>
  /\ UNCHANGED extern

\* ---- refresh_token, lines 98-111 -----------------------------------------

\* the task gets the auth lock and submits cognito.renew_access_token; with
\* self.cognito None (AttributeError) or the executor shut down
\* (RuntimeError) line 109 catches at once and line 111 awaits
\* authenticate() while the task still holds the auth lock
RefAcquire(t) ==
  /\ pc[t] = "ref_lock"
  /\ AuthLockFree
  /\ IF ~CallNeeded(t)
     THEN /\ auth_lock' = Free
          /\ Goto(t, "sess_lock")
          /\ UNCHANGED authCalls
     ELSE /\ auth_lock' = t
          /\ IF ~cognito \/ executor = "shutdown"
             THEN /\ Goto(t, "auth_lock")
                  /\ authCalls' = Hist(authCalls, t, authCalls[t] + 1)
             ELSE /\ Goto(t, "ref_call")
                  /\ UNCHANGED authCalls
  /\ UNCHANGED <<session, sessOpen, token, token_expiration, cognito, executor,
                 session_lock, now,
                 outcomes, sleeps, refreshCalls, entry, cancelPoint>>
  /\ UNCHANGED extern

\* the credential provider renews the token: lines 106-108; refresh_token
\* returns to ensure_token_valid, its only caller, and line 125 follows
RefSucceeds(t, tok) ==
  /\ pc[t] = "ref_call"
  /\ token' = tok
  /\ token_expiration' = NewExpiration
  /\ auth_lock' = Released(auth_lock, t)
  /\ Goto(t, "sess_lock")
  /\ UNCHANGED <<session, sessOpen, cognito, executor, session_lock,
                 now, outcomes, sleeps, authCalls, refreshCalls, entry,
                 cancelPoint>>
  /\ UNCHANGED extern

\* the credential provider rejects the refresh: lines 109-111, the fallback
\* authenticate() is awaited inside `async with self._auth_lock`
RefFails(t) ==
  /\ pc[t] = "ref_call"
  /\ Goto(t, "auth_lock")
  /\ authCalls' = Hist(authCalls, t, authCalls[t] + 1)
  /\ UNCHANGED <<shared, outcomes, sleeps, refreshCalls, entry, cancelPoint>>
  /\ UNCHANGED extern

\* ---- session property, lines 54-66 ----------------------------------------

\* the task gets the session lock, creates the session when there is none
\* open, leaves the lock, and (lines 126-131 on entry, 157 and 128-131 in a
\* retry) issues the next HTTP attempt on the session it was given
SessAcquire(t) ==
  /\ pc[t] = "sess_lock"
  /\ SessionLockFree
  /\ SessionMissing => UnusedSessions # {}
  /\ LET s == IF SessionMissing
              THEN CHOOSE x \in UnusedSessions : \A y \in UnusedSessions : x <= y
              ELSE session
         first == client_session[t] = NoSession
     IN /\ session' = s
        /\ sessOpen' = sessOpen \cup {s}
        /\ client_session' = [client_session EXCEPT ![t] = s]
        /\ headers' = [headers EXCEPT ![t] = IF first THEN token ELSE @]
        /\ attempt' = [attempt EXCEPT ![t] = IF first THEN 0 ELSE NextAttempt(@)]
  /\ pc' = [pc EXCEPT ![t] = "http_wait"]
  /\ UNCHANGED <<token, token_expiration, cognito, executor, session_lock,
                 auth_lock, now, op, cont, history>>
  /\ UNCHANGED extern

\* ---- _make_request, lines 128-161: one attempt comes back ----------------

\* a pipeline that treats only 204 as final and any other status as a failure
EndsAbsent_Only204(st) == st = "204"

\* lines 138-147: status 204, or a status that is none of 200, 204, 401
EndsAbsent(st) == st \in {"204", "500"}

HttpResponse(t, st) ==
  /\ pc[t] = "http_wait"
  /\ outcomes' = Hist(outcomes, t, Append(outcomes[t], st))
  /\ CASE st = "401" ->
            /\ pc' = [pc EXCEPT ![t] = "auth_lock"]
            /\ cont' = [cont EXCEPT ![t] = "401"]
            /\ authCalls' = Hist(authCalls, t, authCalls[t] + 1)
            /\ UNCHANGED <<result, op, attempt, client_session, headers, sleeps>>
       [] st = "200" ->
            /\ Finish(t, "json")
            /\ UNCHANGED <<authCalls, sleeps>>
       [] EndsAbsent(st) ->
            /\ Finish(t, "absent")
            /\ UNCHANGED <<authCalls, sleeps>>
       [] OTHER ->
            /\ IF MayRetry(attempt[t])
               THEN /\ sleeps' = Hist(sleeps, t, Append(sleeps[t], BackoffDelay(attempt[t])))
                    /\ Goto(t, "sleep")
               ELSE /\ Finish(t, "ApiConnectionError")
                    /\ UNCHANGED sleeps
            /\ UNCHANGED authCalls
  /\ UNCHANGED <<shared, refreshCalls, entry, cancelPoint>>
  /\ UNCHANGED extern

\* line 155-156: asyncio.sleep is over, the task calls self.close()
SleepEnd(t) ==
  /\ pc[t] = "sleep"
  /\ Goto(t, "close_lock")
  /\ UNCHANGED <<shared, outcomes, sleeps, authCalls, refreshCalls, entry,
                 cancelPoint>>
  /\ UNCHANGED extern

\* ---- close, lines 274-282 --------------------------------------------------

\* the task gets the session lock; an open session is closed and the task
\* waits in `await self._session.close()`, otherwise the lock is left at
\* once and the executor is shut down
CloseAcquire(t) ==
  /\ pc[t] = "close_lock"
  /\ SessionLockFree
  /\ IF SessionIsOpen
     THEN /\ sessOpen' = sessOpen \ {session}
          /\ session_lock' = t
          /\ Goto(t, "close_wait")
          /\ UNCHANGED <<executor, token>>
     ELSE /\ executor' = ExecutorAfterClose
          /\ token' = TokenAfterClose
          /\ AfterClose(t)
          /\ UNCHANGED <<sessOpen, session_lock>>
  /\ UNCHANGED <<session, token_expiration, cognito, auth_lock, now,
                 outcomes, sleeps, authCalls, refreshCalls, entry,
                 cancelPoint>>
  /\ UNCHANGED extern

\* line 279-282: the session is closed; self._session = None, the lock is
\* left and the executor is shut down
CloseFinish(t) ==
  /\ pc[t] = "close_wait"
  /\ session' = NoSession
  /\ session_lock' = Released(session_lock, t)
  /\ executor' = ExecutorAfterClose
  /\ token' = TokenAfterClose
  /\ AfterClose(t)
  /\ UNCHANGED <<sessOpen, token_expiration, cognito, auth_lock, now,
                 outcomes, sleeps, authCalls, refreshCalls, entry,
                 cancelPoint>>
  /\ UNCHANGED extern

\* ---- cancellation -----------------------------------------------------------

\* a lock taken with acquire() and released only on the normal path
ReleasedOnCancel_Kept(lock, t) == lock

\* __aexit__ of `async with lock` when CancelledError passes through it
ReleasedOnCancel(lock, t) == Released(lock, t)

\* what the task was doing when it was cancelled
SuspendedIn(t) ==
  CASE pc[t] \in {"auth_call", "ref_call"} -> "provider"
    [] pc[t] = "auth_lock" /\ auth_lock = t -> "fallback"
    [] pc[t] \in {"auth_lock", "ref_lock", "sess_lock", "close_lock"} -> "lock"
    [] pc[t] = "close_wait" -> "closing"
    [] pc[t] = "http_wait" -> "http"
    [] OTHER -> "sleep"

\* the host cancels the task at the suspension point it is parked at:
\* CancelledError unwinds every `async with` (no handler of the client
\* catches it: lines 79 and 109 catch Exception only)
Cancel(t) ==
  /\ pc[t] # "idle"
  /\ cancelPoint' = Hist(cancelPoint, t, SuspendedIn(t))
  /\ Finish(t, "cancelled")
  /\ auth_lock' = ReleasedOnCancel(auth_lock, t)
  /\ session_lock' = ReleasedOnCancel(session_lock, t)
  /\ UNCHANGED <<session, sessOpen, token, token_expiration, cognito, executor,
                 now, outcomes, sleeps, authCalls, refreshCalls, entry>>
  /\ UNCHANGED extern

\* ---- the clock ----------------------------------------------------------------
Tick ==
  /\ now + TickStep <= MaxNow
  /\ now' = now + TickStep
  /\ UNCHANGED <<session, sessOpen, token, token_expiration, cognito, executor,
                 session_lock, auth_lock, locals, history>>
  /\ UNCHANGED extern

Next ==
  \/ \E t \in Tasks : StartRequest(t)
  \/ \E t \in Tasks : StartAuthenticate(t)
  \/ \E t \in Tasks : StartClose(t)
  \/ \E t \in Tasks : AuthAcquire(t)
  \/ \E t \in Tasks, tok \in Tokens : AuthSucceeds(t, tok)
  \/ \E t \in Tasks : AuthFails(t)
  \/ \E t \in Tasks : RefAcquire(t)
  \/ \E t \in Tasks, tok \in Tokens : RefSucceeds(t, tok)
  \/ \E t \in Tasks : RefFails(t)
  \/ \E t \in Tasks : SessAcquire(t)
  \/ \E t \in Tasks, st \in Statuses : HttpResponse(t, st)
  \/ \E t \in Tasks : SleepEnd(t)
  \/ \E t \in Tasks : CloseAcquire(t)
  \/ \E t \in Tasks : CloseFinish(t)
  \/ \E t \in Tasks : Cancel(t)
  \/ Tick

Spec == Init /\ [][Next]_vars

\* ==== the pure functions of api.py ============================================

\* ---- JSON values: object / array / string / null ------------------------------
Null == [tag |-> "null"]
Str(v) == [tag |-> "str", v |-> v]
List(items) == [tag |-> "list", items |-> items]
Dict(m) == [tag |-> "dict", m |-> m]

\* `v is not None`
NotNone(v) == v.tag # "null"

\* a clean_none_values that does not descend into containers
RECURSIVE clean_none_values_Shallow(_)
clean_none_values_Shallow(d) ==
  CASE d.tag = "dict" ->
         Dict([k \in {x \in DOMAIN d.m : NotNone(d.m[x])} |-> d.m[k]])
    [] d.tag = "list" -> List(SelectSeq(d.items, NotNone))
    [] d.tag = "null" -> Str("")
    [] OTHER -> d

\* clean_none_values, lines 13-22: a None member of a dict or a list is
\* dropped by the comprehension's filter; only a None passed as d itself
\* becomes ""
RECURSIVE clean_none_values(_)
clean_none_values(d) ==
  CASE d.tag = "dict" ->
         Dict([k \in {x \in DOMAIN d.m : NotNone(d.m[x])} |->
                 clean_none_values(d.m[k])])
    [] d.tag = "list" ->
         LET kept == SelectSeq(d.items, NotNone)
         IN List([i \in 1..Len(kept) |-> clean_none_values(kept[i])])
    [] d.tag = "null" -> Str("")
    [] OTHER -> d

\* the JSON trees the function is applied to: scalars, and two levels of
\* lists of at most MaxItems members and of objects over Keys
Keys == {"a", "b"}
Scalars == {Null, Str(""), Str("x")}
ListsOver(S) == {List(l) : l \in UNION {[1..n -> S] : n \in 0..MaxItems}}
DictsOver(S) == {Dict(m) : m \in UNION {[K -> S] : K \in SUBSET Keys}}
Flat == Scalars \cup ListsOver(Scalars) \cup DictsOver(Scalars)
Trees == Scalars \cup ListsOver(Flat) \cup DictsOver(Flat)

InitClean == InitApi /\ InitCoord /\ arg \in Trees /\ ret = Unset /\ ret2 = Unset

\* data = clean_none_values(data) (get_devices line 167, get_aqi line 269)
CleanCall ==
  /\ ret = Unset
  /\ ret' = clean_none_values(arg)
  /\ UNCHANGED <<shared, locals, history, coord, arg, ret2>>

\* the function applied to its own result
CleanAgain ==
  /\ ret # Unset /\ ret2 = Unset
  /\ ret2' = clean_none_values(ret)
  /\ UNCHANGED <<shared, locals, history, coord, arg, ret>>

NextClean == CleanCall \/ CleanAgain

SpecClean == InitClean /\ [][NextClean]_vars

\* ---- _process_sensor_data, lines 188-215 ----------------------------------------
PollutantKeys == {"PM2_5", "PM10", "RH", "TVOC", "CO2"}

\* None as a reading (lines 196-200) and the API's "no reading" value (line 208)
NoReading == -2
Sentinel == -1

\* line 208: v['v'] != -1
IsValid(v) == v # Sentinel

\* the first valid value
Latest_First(valid_values) == valid_values[1]

\* line 210: valid_values[-1]
Latest(valid_values) == valid_values[Len(valid_values)]

\* lines 204-210: the loop over data['sensorData'] from entry i on
RECURSIVE ProcessLoop(_, _, _)
ProcessLoop(processed, sensorData, i) ==
  IF i > Len(sensorData) THEN processed
  ELSE LET pollutant == sensorData[i]
           valid_values == SelectSeq(pollutant.sensorDataValue, IsValid)
       IN ProcessLoop(
            IF pollutant.type \in DOMAIN processed /\ valid_values # <<>>
            THEN [processed EXCEPT ![pollutant.type] = Latest(valid_values)]
            ELSE processed,
            sensorData, i + 1)

process_sensor_data(body) ==
  IF body.tag # "raw" THEN NoneValue
  ELSE [tag |-> "processed",
        data |-> ProcessLoop([k \in PollutantKeys |-> NoReading], body.sensorData, 1)]

\* the responses of the sensordata endpoint the function is applied to: up
\* to MaxPollutants entries, each of a known or unknown type with a series
\* of up to MaxSeries readings (Raw), or a body without the 'sensorData'
\* key (NoKey)
RawTypes == {"PM2_5", "CO2", "HCHO"}
Readings == {Sentinel, 1, 2}
Series == UNION {[1..n -> Readings] : n \in 0..MaxSeries}
PollutantEntries == [type : RawTypes, sensorDataValue : Series]
Raw(sd) == [tag |-> "raw", sensorData |-> sd]
NoKey == [tag |-> "nokey"]

InitSensor ==
  /\ InitApi /\ InitCoord
  /\ \/ arg = NoKey
     \/ \E n \in 0..MaxPollutants : \E sd \in [1..n -> PollutantEntries] : arg = Raw(sd)
  /\ ret = Unset /\ ret2 = Unset

\* get_sensor_data, line 183: self._process_sensor_data(data)
ProcessCall ==
  /\ ret = Unset
  /\ ret' = process_sensor_data(arg)
  /\ UNCHANGED <<shared, locals, history, coord, arg, ret2>>

NextSensor == ProcessCall

SpecSensor == InitSensor /\ [][NextSensor]_vars

\* ==== the client's operations and the config entry ============================

\* ---- the operations of api.py, lines 163-272 --------------------------------
Bool(b) == [tag |-> "bool", v |-> b]
Raise(err) == [tag |-> "raised", error |-> err]

\* what _make_request raises (an Exception each: lines 24-34, and the
\* RuntimeError of a closed session)
Raised == {"ApiConnectionError", "AuthenticationError", "RuntimeError"}

\* the bodies of the JSON responses: `if data` is false for {}
EmptyBody == Dict(<<>>)
Truthy(body) == body # EmptyBody

GetDevices == [name |-> "get_devices"]
GetSensorData(serial) == [name |-> "get_sensor_data", serial |-> serial]
GetAqi(serial) == [name |-> "get_aqi", serial |-> serial]
SetPowerStatus(serial, status) ==
  [name |-> "set_power_status", serial |-> serial, status |-> status]
SetFanSpeed(serial, speed) ==
  [name |-> "set_fan_speed", serial |-> serial, speed |-> speed]
EnableSmartMode(serial, silent) ==
  [name |-> "set_auto_mode", serial |-> serial, silent |-> silent]

\* a set_auto_mode that enables smart mode whatever `auto` is
set_auto_mode_Always(serial, auto, silent) == EnableSmartMode(serial, silent)

\* set_auto_mode, lines 245-262: with auto false the call is
\* `return await self.set_fan_speed(serial, 1)`
set_auto_mode(serial, auto, silent) ==
  IF auto THEN EnableSmartMode(serial, silent)
  ELSE SetFanSpeed(serial, 1)

\* the arguments of self._make_request(method, url, json=...) in operation c
RequestOf(c) ==
  CASE c.name = "get_devices" ->
         [method |-> "GET", serial |-> "", path |-> "", json |-> <<>>]
    [] c.name = "get_sensor_data" ->
         [method |-> "GET", serial |-> c.serial, path |-> "sensordata", json |-> <<>>]
    [] c.name = "get_aqi" ->
         [method |-> "GET", serial |-> c.serial, path |-> "air-quality-index",
          json |-> <<>>]
    [] c.name = "set_power_status" ->
         [method |-> "POST", serial |-> c.serial, path |-> "actions/set-power-status",
          json |-> <<"status", IF c.status THEN "on" ELSE "off">>]
    [] c.name = "set_fan_speed" ->
         [method |-> "POST", serial |-> c.serial, path |-> "actions/set-fan-speed",
          json |-> <<"fanSpeed", c.speed>>]
    [] OTHER ->
         [method |-> "POST", serial |-> c.serial, path |-> "actions/enable-smart-mode",
          json |-> <<"silent", IF c.silent THEN "1" ELSE "0">>]

\* handlers that catch aiohttp.ClientError only
Caught_ClientErrorOnly(err) == FALSE

\* `except Exception as err` (lines 168, 184, 227, 241, 258, 270)
Caught(err) == err \in Raised

\* a setter that reports success only for a response with a body
SetterReturn_OnBody(res) == Bool(res = "json")

\* set_power_status, set_fan_speed, set_auto_mode (lines 220-229, 234-243,
\* 250-260): `return True` after _make_request whatever it returned,
\* `return False` in the handler
SetterReturn(res) == Bool(res \notin Raised)

\* what operation c returns (or raises) when _make_request ended with res
\* and, for res = "json", the parsed body
WrapperReturn(c, res, body) ==
  IF res \in Raised /\ ~Caught(res) THEN Raise(res)
  ELSE CASE c.name \in {"get_devices", "get_aqi"} ->
              IF res = "json" /\ Truthy(body) THEN clean_none_values(body)
              ELSE NoneValue
         [] c.name = "get_sensor_data" ->
              IF res = "json" /\ Truthy(body) THEN process_sensor_data(body)
              ELSE NoneValue
         [] OTHER -> SetterReturn(res)

\* ---- async_update_data, __init__.py lines 30-95 ------------------------------

\* the devices of the account as the API lists them: a serial number (or
\* null) and a subProduct naming the model (or null)
Device(serial, subProduct) ==
  Dict([k \in {"serialNumber", "subProduct"} |->
          IF k = "serialNumber" THEN serial ELSE subProduct])
SubProduct(name) == Dict([k \in {"name"} |-> Str(name)])

\* the device with the state fields f (a function from field names to values)
WithFields(device, f) ==
  Dict([k \in DOMAIN device.m \cup DOMAIN f |->
          IF k \in DOMAIN f THEN f[k] ELSE device.m[k]])

\* the fields async_update_data fills in, and the values it fills in
DefaultFields == {"fanspeed", "pecoFilter", "mode", "online"}
DefaultOf(k) ==
  CASE k = "fanspeed" -> Str("1")
    [] k = "pecoFilter" -> Str("0")
    [] k = "mode" -> Str("manual")
    [] OTHER -> Str("false")

\* A1 comes with a fan speed and a null mode, A2 with all four state
\* fields, A3 and the device without serial number with none; A3 is listed
\* without model, as a "Molekule Air", or under the name "Unknown Model"
ApiDevices ==
  {WithFields(Device(Str("A1"), SubProduct("Molekule Air Pro")),
              [k \in {"fanspeed", "mode"} |->
                 IF k = "fanspeed" THEN Str("3") ELSE Null]),
   WithFields(Device(Str("A2"), SubProduct("Molekule Air Pro")),
              [k \in DefaultFields |->
                 CASE k = "fanspeed" -> Str("2")
                   [] k = "pecoFilter" -> Str("50")
                   [] k = "mode" -> Str("smart")
                   [] OTHER -> Str("true")]),
   Device(Null, SubProduct("Molekule Air Pro"))}

\* a third device: one the service gives null for subProduct, the
\* first-generation purifier, and one the service itself names "Unknown Model"
OtherModels ==
  {Device(Str("A3"), Null),
   Device(Str("A3"), SubProduct("Molekule Air")),
   Device(Str("A3"), SubProduct("Unknown Model"))}

\* the bodies of the device list: {"content": [...]} with up to MaxDevices
\* devices of distinct serial numbers in any order, or with a third device
\* alone, before or after the device A1; a body without "content", and {}
DeviceLists ==
  {l \in UNION {[1..n -> ApiDevices] : n \in 0..MaxDevices} :
     \A i, j \in 1..Len(l) : i # j => l[i].m["serialNumber"] # l[j].m["serialNumber"]}
  \cup {<<m>> : m \in OtherModels}
  \cup UNION {{<<m, d>>, <<d, m>>} :
               m \in OtherModels,
               d \in {a \in ApiDevices : a.m["serialNumber"] = Str("A1")}}
DeviceBodies ==
  {Dict([k \in {"content"} |-> List(l)]) : l \in DeviceLists}
  \cup {Dict([k \in {"message"} |-> Str("x")]), EmptyBody}

\* the bodies of the sensordata endpoint
SensorBodies ==
  {Raw(<<[type |-> "PM2_5", sensorDataValue |-> <<2, Sentinel>>],
         [type |-> "CO2", sensorDataValue |-> <<Sentinel>>]>>),
   NoKey, EmptyBody}

\* a tick that goes on with whatever get_devices returned
DevicesAbsent_Never(d) == FALSE

\* line 34: devices_data is None
DevicesAbsent(d) == d = NoneValue

\* line 37: devices_data.get("content", [])
ContentOf(d) ==
  IF d.tag = "dict" /\ "content" \in DOMAIN d.m
  THEN d.m["content"].items
  ELSE <<>>

\* line 43: device.get("subProduct", {}).get("name", "Unknown Model")
ModelOf(device) ==
  IF "subProduct" \in DOMAIN device.m /\ "name" \in DOMAIN device.m["subProduct"].m
  THEN device.m["subProduct"].m["name"].v
  ELSE "Unknown Model"

\* a test that leaves out the first generation only
HasSensors_AirOnly(device) == ModelOf(device) # "Molekule Air"

\* line 55: device_model not in ["Molekule Air", "Unknown Model"]
HasSensors(device) == ModelOf(device) \notin {"Molekule Air", "Unknown Model"}

\* an else branch that stores what get_sensor_data gave
SensorEntry_AsGiven(sensor_data) ==
  IF sensor_data.tag = "processed" THEN sensor_data.data ELSE <<>>

\* lines 61-71: `if sensor_data` keeps the readings, else all five are None
SensorEntry(sensor_data) ==
  IF sensor_data.tag = "processed" THEN sensor_data.data
  ELSE [k \in PollutantKeys |-> NoReading]

\* a processed_data rebuilt from the device in hand alone
WithEntry_Overwrite(pd, device, sensor_data) ==
  LET serial == device.m["serialNumber"].v
  IN [pd EXCEPT !.entries =
        [x \in {serial} |->
           [sensors |-> [k \in PollutantKeys |-> NoReading],
            device_info |-> [serial |-> serial, model |-> "Unknown Model"]]]]

\* lines 62-87: processed_data[serial] = readings plus "device_info"
WithEntry(pd, device, sensor_data) ==
  LET serial == device.m["serialNumber"].v
      new == [sensors |-> SensorEntry(sensor_data),
              device_info |-> [serial |-> serial, model |-> ModelOf(device)]]
  IN [pd EXCEPT !.entries =
        [x \in DOMAIN pd.entries \cup {serial} |->
           IF x = serial THEN new ELSE pd.entries[x]]]

\* a loop that sets the four fields to their defaults whatever the device has
WithDefaults_Overwrite(device) ==
  Dict([k \in DOMAIN device.m \cup DefaultFields |->
          IF k \in DefaultFields THEN DefaultOf(k) ELSE device.m[k]])

\* lines 48-51: device[k] = device.get(k, default), on the dict that is a
\* member of processed_data["content"]
WithDefaults(device) ==
  Dict([k \in DOMAIN device.m \cup DefaultFields |->
          IF k \in DOMAIN device.m THEN device.m[k] ELSE DefaultOf(k)])

\* the loop of line 40 from device i up to its next await (line 57), its
\* end (line 89), or the KeyError of line 41 for a device without serial
RECURSIVE RunLoop(_, _)
RunLoop(pd, i) ==
  IF i > Len(pd.content) THEN [st |-> "done", pd |-> pd, i |-> i]
  ELSE IF "serialNumber" \notin DOMAIN pd.content[i].m
       THEN [st |-> "KeyError", pd |-> pd, i |-> i]
       ELSE LET filled == [pd EXCEPT !.content[i] = WithDefaults(@)]
            IN IF HasSensors(filled.content[i])
               THEN [st |-> "await", pd |-> filled, i |-> i]
               ELSE RunLoop(WithEntry(filled, filled.content[i], NoneValue), i + 1)

\* lines 91-95: the handlers of the try block. The module never imports
\* asyncio, so evaluating `except asyncio.CancelledError` raises NameError
\* in place of the exception being handled, UpdateFailed included
TickError(err) == "NameError"

\* what DataUpdateCoordinator counts as a failed update: any exception
UpdateFailures == {"UpdateFailed", "NameError", "KeyError"}

\* the coroutine of the config entry and its entities
Main == 1
api == <<shared, locals, history>>

\* the body of the response when the request returned one
BodiesFor(bodies) == IF result[Main] = "json" THEN bodies ELSE {EmptyBody}

\* an empty processed_data with the content of the device list (line 37)
Snapshot(content) == [tag |-> "snapshot", content |-> content, entries |-> <<>>]

\* the tick ends with an exception: coordinator.data stays; a failed first
\* refresh makes async_setup_entry raise ConfigEntryNotReady (line 106)
TickFails(err) ==
  /\ tickResult' = TickError(err)
  /\ cpc' = IF ready THEN "idle" ELSE "not_ready"
  /\ processed_data' = NoneValue
  /\ idx' = 0
  /\ UNCHANGED <<api, data, ready, call, request>>

\* line 89: the tick returns processed_data, which becomes coordinator.data;
\* after the first refresh async_setup_entry goes on to return True
TickPublishes(pd) ==
  /\ tickResult' = "ok"
  /\ data' = pd
  /\ ready' = TRUE
  /\ cpc' = "idle"
  /\ processed_data' = NoneValue
  /\ idx' = 0
  /\ UNCHANGED <<api, call, request>>

\* the tick runs on from device i, up to the next get_sensor_data call
ContinueTick(pd, i) ==
  LET r == RunLoop(pd, i)
  IN CASE r.st = "await" ->
            /\ processed_data' = r.pd
            /\ idx' = r.i
            /\ call' = GetSensorData(r.pd.content[r.i].m["serialNumber"].v)
            /\ request' = RequestOf(call')
            /\ cpc' = "sensor"
            /\ EnterRequest(Main)
            /\ UNCHANGED <<data, ready, tickResult>>
       [] r.st = "done" -> TickPublishes(r.pd)
       [] OTHER -> TickFails(r.st)

\* the coordinator starts a refresh: line 33, await api.get_devices()
TickStart ==
  /\ cpc = "idle" /\ coordinator
  /\ cpc' = "devices"
  /\ call' = GetDevices
  /\ request' = RequestOf(call')
  /\ EnterRequest(Main)
  /\ tickResult' = "none"
  /\ tickBase' = data
  /\ devices_data' = NoneValue
  /\ devices_body' = NoneValue
  /\ queried' = <<>>
  /\ UNCHANGED <<pure, coordinator, ready, data, processed_data, idx, setupAuth,
                 invoked, wres, wret>>

\* get_devices returns (lines 165-170) and the tick runs on: lines 34-57
DevicesReturn ==
  /\ cpc = "devices" /\ pc[Main] = "idle"
  /\ \E body \in BodiesFor(DeviceBodies) :
       LET d == WrapperReturn(call, result[Main], body)
       IN /\ wres' = result[Main]
          /\ wret' = d
          /\ devices_data' = d
          /\ devices_body' = IF result[Main] = "json" THEN body ELSE NoneValue
          /\ IF d.tag = "raised" THEN TickFails(d.error)
             ELSE IF DevicesAbsent(d) THEN TickFails("UpdateFailed")
             ELSE ContinueTick(Snapshot(ContentOf(d)), 1)
  /\ UNCHANGED <<pure, coordinator, setupAuth, tickBase, queried, invoked>>

\* get_sensor_data returns (lines 181-186) and the tick runs on: lines 61-87
\* for this device, then the loop
SensorReturn ==
  /\ cpc = "sensor" /\ pc[Main] = "idle"
  /\ \E body \in BodiesFor(SensorBodies) :
       LET d == WrapperReturn(call, result[Main], body)
           sensor_data == IF d.tag = "raised" THEN NoneValue ELSE d
       IN /\ wres' = result[Main]
          /\ wret' = d
          /\ queried' = Append(queried, [serial |-> call.serial, res |-> result[Main],
                                         body |-> body])
          /\ ContinueTick(WithEntry(processed_data, processed_data.content[idx],
                                    sensor_data), idx + 1)
  /\ UNCHANGED <<pure, coordinator, setupAuth, tickBase, devices_data, devices_body,
                 invoked>>

\* ---- async_setup_entry, __init__.py lines 18-28 and 97-117 --------------------

\* a setup that raises ConfigEntryNotReady without closing the client
SetupCloses_Never == FALSE

\* line 27: await api.close() before ConfigEntryNotReady is raised
SetupCloses == TRUE

\* line 25: api = MolekuleApi(...); await api.authenticate()
SetupStart ==
  /\ cpc = "new"
  /\ cpc' = "setup_auth"
  /\ EnterAuthenticate(Main)
  /\ UNCHANGED <<pure, coordinator, ready, data, processed_data, idx, call, request,
                 setupAuth, tickResult, tickBase, devices_data, devices_body, queried, invoked, wres,
           wret>>

\* authenticate() returned: the coordinator is created (line 97), or it
\* raised: lines 26-28
SetupAuthReturn ==
  /\ cpc = "setup_auth" /\ pc[Main] = "idle"
  /\ IF result[Main] = "ok"
     THEN /\ setupAuth' = "ok"
          /\ coordinator' = TRUE
          /\ cpc' = "idle"
          /\ UNCHANGED api
     ELSE /\ setupAuth' = "failed"
          /\ UNCHANGED coordinator
          /\ IF SetupCloses
             THEN cpc' = "setup_close" /\ EnterClose(Main)
             ELSE cpc' = "not_ready" /\ UNCHANGED api
  /\ UNCHANGED <<pure, ready, data, processed_data, idx, call, request,
                 tickResult, tickBase, devices_data, devices_body, queried, invoked, wres, wret>>

\* line 28: close() returned, raise ConfigEntryNotReady
SetupCloseReturn ==
  /\ cpc = "setup_close" /\ pc[Main] = "idle"
  /\ cpc' = "not_ready"
  /\ UNCHANGED <<api, pure, coordinator, ready, data, processed_data, idx, call,
                 request, setupAuth, tickResult, tickBase, devices_data, devices_body, queried,
                 invoked, wres, wret>>

\* the token the credential provider issues to the config entry
EntryTokens == {1}

\* the request pipeline run by the coroutine of the config entry
NextApi ==
  \/ AuthAcquire(Main)
  \/ \E tok \in EntryTokens : AuthSucceeds(Main, tok)
  \/ AuthFails(Main)
  \/ RefAcquire(Main)
  \/ \E tok \in EntryTokens : RefSucceeds(Main, tok)
  \/ RefFails(Main)
  \/ SessAcquire(Main)
  \/ \E st \in Statuses : HttpResponse(Main, st)
  \/ SleepEnd(Main)
  \/ CloseAcquire(Main)
  \/ CloseFinish(Main)
  \/ Tick

NextEntry ==
  \/ SetupStart
  \/ SetupAuthReturn
  \/ SetupCloseReturn
  \/ TickStart
  \/ DevicesReturn
  \/ SensorReturn
  \/ NextApi

SpecEntry == Init /\ [][NextEntry]_vars

\* ---- the callers of the client's operations (fan.py, config_flow.py) ------------
Serials == {"A1", "A2"}
Invocations ==
  {[op |-> "get_devices"]}
  \cup {[op |-> o, serial |-> sn] : o \in {"get_sensor_data", "get_aqi"}, sn \in Serials}
  \cup {[op |-> "set_power_status", serial |-> sn, status |-> st] :
          sn \in Serials, st \in BOOLEAN}
  \cup {[op |-> "set_fan_speed", serial |-> sn, speed |-> sp] :
          sn \in Serials, sp \in {1, 2}}
  \cup {[op |-> "set_auto_mode", serial |-> sn, auto |-> a, silent |-> sl] :
          sn \in Serials, a \in BOOLEAN, sl \in BOOLEAN}

\* the operation that runs for invocation inv
CallOf(inv) ==
  CASE inv.op = "get_devices" -> GetDevices
    [] inv.op = "get_sensor_data" -> GetSensorData(inv.serial)
    [] inv.op = "get_aqi" -> GetAqi(inv.serial)
    [] inv.op = "set_power_status" -> SetPowerStatus(inv.serial, inv.status)
    [] inv.op = "set_fan_speed" -> SetFanSpeed(inv.serial, inv.speed)
    [] OTHER -> set_auto_mode(inv.serial, inv.auto, inv.silent)
AqiBodies ==
  {Dict([k \in {"aqi"} |-> Str("x")]), Dict([k \in {"aqi"} |-> Null]), EmptyBody}

\* the bodies a 200 response to operation c can carry
BodiesOf(c) ==
  CASE c.name = "get_devices" -> DeviceBodies
    [] c.name = "get_sensor_data" -> SensorBodies
    [] c.name = "get_aqi" -> AqiBodies
    [] OTHER -> {EmptyBody}

\* a caller that holds the authenticated client makes invocation inv
CommandStart(inv) ==
  /\ cpc = "idle"
  /\ cpc' = "command"
  /\ invoked' = inv
  /\ call' = CallOf(inv)
  /\ request' = RequestOf(call')
  /\ EnterRequest(Main)
  /\ wres' = "none"
  /\ wret' = Unset
  /\ UNCHANGED <<pure, coordinator, ready, data, processed_data, idx, setupAuth,
                 tickResult, tickBase, devices_data, devices_body, queried>>

\* the operation returns to its caller
CommandReturn ==
  /\ cpc = "command" /\ pc[Main] = "idle"
  /\ cpc' = "idle"
  /\ wres' = result[Main]
  /\ \E body \in BodiesFor(BodiesOf(call)) :
       wret' = WrapperReturn(call, result[Main], body)
  /\ UNCHANGED <<api, pure, coordinator, ready, data, processed_data, idx, call,
                 request, setupAuth, tickResult, tickBase, devices_data, devices_body, queried,
                 invoked>>

NextCommand ==
  \/ SetupStart
  \/ SetupAuthReturn
  \/ SetupCloseReturn
  \/ \E inv \in Invocations : CommandStart(inv)
  \/ CommandReturn
  \/ NextApi

SpecCommand == Init /\ [][NextCommand]_vars

\* ---- one coroutine issuing requests, with the event loop's fairness ----------

\* the steps that resume the coroutine of the config entry inside the
\* client: a lock it waits for is free, the credential provider answers,
\* the HTTP attempt ends (ClientTimeout(total=30), line 50), the sleep is over
PipelineStep ==
  \/ AuthAcquire(Main)
  \/ \E tok \in EntryTokens : AuthSucceeds(Main, tok)
  \/ AuthFails(Main)
  \/ RefAcquire(Main)
  \/ \E tok \in EntryTokens : RefSucceeds(Main, tok)
  \/ RefFails(Main)
  \/ SessAcquire(Main)
  \/ \E st \in Statuses : HttpResponse(Main, st)
  \/ SleepEnd(Main)
  \/ CloseAcquire(Main)
  \/ CloseFinish(Main)

NextRequest ==
  \/ StartRequest(Main)
  \/ NextApi

\* the event loop resumes a coroutine whose awaited event has occurred
SpecRequest == Init /\ [][NextRequest]_vars /\ WF_vars(PipelineStep)

\* ==== properties ============================================================

AllFail(s) == \A i \in 1..Len(s) : s[i] = "fail"

\* the request of an observed task t has returned or raised (was not cancelled)
Returned(t) == op[t] = "request" /\ pc[t] = "idle" /\ result[t] # "cancelled"

\* C1: a request whose attempts all end in a transport failure waits 1 s
\* before attempt 2 and 2 s before attempt 3, never issues a 4th attempt,
\* and once it has returned it has issued exactly 3 attempts, slept 1 s and
\* 2 s and nothing after attempt 3, and raised ApiConnectionError.
C1_RetryBudget ==
  \A t \in Observed :
    (op[t] = "request" /\ outcomes[t] # <<>> /\ AllFail(outcomes[t])) =>
      /\ Len(outcomes[t]) <= 3
      /\ sleeps[t] = SubSeq(<<1, 2>>, 1, IF Len(outcomes[t]) < 2 THEN Len(outcomes[t]) ELSE 2)
      /\ Returned(t) => Len(outcomes[t]) = 3 /\ result[t] = "ApiConnectionError"

C1_Witness ==
  \E t \in Observed :
    /\ Returned(t) /\ outcomes[t] = <<"fail", "fail", "fail">>
    /\ sleeps[t] = <<1, 2>> /\ result[t] = "ApiConnectionError"

\* C2: a request that found its token fresh on entry and got the responses
\* 401 then 200 has called authenticate() exactly once and refresh_token()
\* never, has issued exactly two attempts, the second in the second of the
\* three loop iterations, and has returned the parsed body.
C2_Reauth401Then200 ==
  \A t \in Observed :
    (op[t] = "request" /\ entry[t] = "none" /\ outcomes[t] = <<"401", "200">>) =>
      /\ authCalls[t] = 1 /\ refreshCalls[t] = 0
      /\ attempt[t] = 1 /\ sleeps[t] = <<>>
      /\ pc[t] = "idle" /\ result[t] = "json"

C2_Witness ==
  \E t \in Observed :
    /\ op[t] = "request" /\ entry[t] = "none" /\ outcomes[t] = <<"401", "200">>
    /\ authCalls[t] = 1 /\ result[t] = "json"

\* C3: on entry of a request, ensure_token_valid calls authenticate() when
\* the token or its expiry is absent, calls refresh_token() when both are
\* present and now >= expiry - 5 minutes, and otherwise makes no call and
\* leaves token and expiry as they are.
C3_EnsureTokenValid ==
  [][\A t \in Tasks :
       (pc[t] = "idle" /\ pc'[t] # "idle" /\ op'[t] = "request") =>
         /\ (token = NoToken \/ token_expiration = NoTime) => pc'[t] = "auth_lock"
         /\ (token # NoToken /\ token_expiration # NoTime
               /\ now >= token_expiration - 5) => pc'[t] = "ref_lock"
         /\ (token # NoToken /\ token_expiration # NoTime
               /\ now < token_expiration - 5) =>
              /\ pc'[t] = "sess_lock"
              /\ token' = token /\ token_expiration' = token_expiration]_vars

\* a request has just entered with the clock exactly at expiry - 5 minutes
\* and waits to refresh
C3_Witness ==
  \E t \in Observed :
    /\ op[t] = "request" /\ entry[t] = "refresh_token" /\ pc[t] = "ref_lock"
    /\ token # NoToken /\ now = token_expiration - 5

\* C4: after the credential provider rejected a refresh, the fallback
\* authenticate() of refresh_token can go on, so the call returns: the task
\* never waits for the auth lock while it holds that lock itself (a wait
\* that nothing but a cancellation ends).
C4_RefreshFallbackReturns ==
  \A t \in Tasks : ~(pc[t] = "auth_lock" /\ auth_lock = t)

\* the tasks that await a credential-provider call
InProviderCall == {t \in Tasks : pc[t] \in {"auth_call", "ref_call"}}

\* C5: at most one credential-provider call (authenticate or refresh) is
\* awaited at any time.
C5_OneAuthInFlight == Cardinality(InProviderCall) <= 1

\* one task is inside the provider call while the other one wants to
\* authenticate or refresh too
C5_Witness ==
  \E t, u \in Tasks :
    /\ t # u /\ pc[t] \in {"auth_call", "ref_call"}
    /\ pc[u] \in {"auth_lock", "ref_lock"}

\* C6: the client owns at most one open session, and every task that holds
\* an open session holds the client's session: concurrent first callers
\* all get the one session that was constructed.
C6_OneSession ==
  /\ Cardinality(sessOpen) <= 1
  /\ \A t \in Tasks : client_session[t] \in sessOpen => client_session[t] = session

\* both tasks obtained the session for their first attempt and got the same
C6_Witness ==
  \E t, u \in Tasks :
    /\ t # u /\ pc[t] = "http_wait" /\ pc[u] = "http_wait"
    /\ attempt[t] = 0 /\ attempt[u] = 0
    /\ client_session[t] # NoSession /\ client_session[t] = client_session[u]
    /\ client_session[t] = session /\ sessOpen = {session}

\* the tasks that run an operation
Active == {t \in Tasks : pc[t] # "idle"}

\* task t waits for a lock that is held
Blocked(t) ==
  \/ pc[t] \in {"auth_lock", "ref_lock"} /\ auth_lock # Free
  \/ pc[t] \in {"sess_lock", "close_lock"} /\ session_lock # Free

\* C7: no task asks for or holds the session lock while it holds the auth
\* lock, and the running tasks are never all blocked waiting for one of
\* the two locks.
C7_NoLockDeadlock ==
  /\ \A t \in Tasks :
       auth_lock = t => pc[t] \notin {"sess_lock", "close_lock", "close_wait"}
  /\ ~(Active # {} /\ \A t \in Active : Blocked(t))

\* C8: a cancelled task holds neither lock, whatever it was suspended in;
\* a lock that is held is held by a task inside the block it guards.
C8_CancelReleasesLocks ==
  /\ \A t \in Observed :
       (pc[t] = "idle" /\ result[t] = "cancelled") =>
         auth_lock # t /\ session_lock # t
  /\ auth_lock # Free => pc[auth_lock] \in {"auth_call", "ref_call", "auth_lock"}
  /\ session_lock # Free => pc[session_lock] = "close_wait"

\* a task was cancelled while it held the auth lock, and the other task
\* has taken the lock since
C8_Witness ==
  \E t \in Observed, u \in Tasks :
    /\ pc[t] = "idle" /\ result[t] = "cancelled"
    /\ cancelPoint[t] \in {"provider", "fallback"}
    /\ u # t /\ auth_lock = u /\ pc[u] = "auth_call"

\* a direct close() of an observed task returns in this step
CloseReturns(t) ==
  /\ op[t] = "close" /\ pc[t] \in {"close_lock", "close_wait"}
  /\ pc'[t] = "idle" /\ result'[t] = "ok"

\* C9: close() raises nothing; when it returns the client owns no open
\* session and the executor is shut down; a close() that finds the client
\* in that state already (no open session, executor shut down) changes
\* nothing, so two calls in a row leave the state of one call.
C9_CloseIdempotent ==
  [][\A t \in Observed :
       CloseReturns(t) =>
         /\ ~SessionIsOpen' /\ executor' = "shutdown"
         /\ (pc[t] = "close_lock" /\ executor = "shutdown") => shared' = shared]_vars

\* close() returned on a client that had no session
C9_Witness ==
  \E t \in Observed :
    /\ op[t] = "close" /\ pc[t] = "idle" /\ result[t] = "ok"
    /\ session = NoSession /\ sessOpen = {} /\ executor = "shutdown"
    /\ token = NoToken

\* C10 as claimed: when close() returns the bearer token is absent.
C10_CloseClearsToken ==
  [][\A t \in Observed : CloseReturns(t) => token' = NoToken]_vars

\* C10 as the code has it: close() leaves token and expiry as they were.
C10_CloseKeepsToken ==
  [][\A t \in Observed :
       CloseReturns(t) =>
         token' = token /\ token_expiration' = token_expiration]_vars

\* close() returned and the client still holds a token that the next
\* request will use without any call of the credential provider
C10_Witness ==
  \E t \in Observed :
    /\ op[t] = "close" /\ pc[t] = "idle" /\ result[t] = "ok"
    /\ token # NoToken /\ EnsureBranch = "none"

\* ---- clean_none_values ---------------------------------------------------------

\* the tree d with every null replaced by "" and nothing else changed
RECURSIVE NullToEmpty(_)
NullToEmpty(d) ==
  CASE d.tag = "dict" -> Dict([k \in DOMAIN d.m |-> NullToEmpty(d.m[k])])
    [] d.tag = "list" -> List([i \in 1..Len(d.items) |-> NullToEmpty(d.items[i])])
    [] d.tag = "null" -> Str("")
    [] OTHER -> d

\* the tree d holds a null at some depth
RECURSIVE HasNull(_)
HasNull(d) ==
  CASE d.tag = "dict" -> \E k \in DOMAIN d.m : HasNull(d.m[k])
    [] d.tag = "list" -> \E i \in 1..Len(d.items) : HasNull(d.items[i])
    [] d.tag = "null" -> TRUE
    [] OTHER -> FALSE

C18_CleanIdempotent ==
  /\ ret # Unset => ~HasNull(ret)
  /\ ret2 # Unset => ret2 = ret

\* a list with a null inside a nested container and a null of its own has
\* been cleaned twice
C18_Witness ==
  /\ ret2 # Unset
  /\ arg.tag = "list" /\ Len(arg.items) = 2
  /\ arg.items[1] = Null /\ arg.items[2].tag = "dict" /\ HasNull(arg.items[2])
  /\ ret # arg

\* ---- _process_sensor_data ----------------------------------------------------------

\* the greatest member of a non-empty set of numbers
Max(S) == CHOOSE x \in S : \A y \in S : y <= x

\* the entries of type k that hold a reading other than -1
WithReading(sd, k) ==
  {i \in 1..Len(sd) :
     /\ sd[i].type = k
     /\ \E j \in 1..Len(sd[i].sensorDataValue) : sd[i].sensorDataValue[j] # Sentinel}

\* the last reading other than -1 of the last such entry, absent without one
Selected(sd, k) ==
  IF WithReading(sd, k) = {} THEN NoReading
  ELSE LET series == sd[Max(WithReading(sd, k))].sensorDataValue
       IN series[Max({j \in 1..Len(series) : series[j] # Sentinel})]

\* C16: for each of PM2_5, PM10, RH, TVOC, CO2 the result of
\* _process_sensor_data holds the last value of the pollutant's series, in
\* series order, that is not -1, and absent when the series is empty or all
\* -1; an entry of any other type changes nothing; no value of the result
\* is -1.
C16_LastValidReading ==
  (ret # Unset /\ arg.tag = "raw") =>
    /\ ret.tag = "processed"
    /\ DOMAIN ret.data = PollutantKeys
    /\ \A k \in PollutantKeys :
         /\ ret.data[k] = Selected(arg.sensorData, k)
         /\ ret.data[k] # Sentinel

\* a PM2_5 series ending in -1 after a valid reading, next to a series of
\* an unknown type, has been reduced
C16_Witness ==
  /\ ret # Unset /\ arg.tag = "raw"
  /\ arg.sensorData = <<[type |-> "PM2_5", sensorDataValue |-> <<2, Sentinel>>],
                        [type |-> "HCHO", sensorDataValue |-> <<1, 2>>]>>
  /\ ret.data["PM2_5"] = 2 /\ ret.data["CO2"] = NoReading

\* ---- soft failures --------------------------------------------------------------

\* status 204, or any status other than 200, 204 and 401
EndsAbsentStatus(st) == st \notin {"200", "401", "fail"}

\* C15: a response with status 204, or with a status other than 200, 204
\* and 401, is the last attempt of its request: the request returns absent
\* in that step, and the step makes no authenticate() call, starts no
\* backoff wait, and leaves the session, the set of open sessions and the
\* executor as they were.
C15_SoftStatusEnds ==
  [][\A t \in Observed :
       /\ \A i \in 1..(Len(outcomes'[t]) - 1) : ~EndsAbsentStatus(outcomes'[t][i])
       /\ (outcomes'[t] # outcomes[t] /\ outcomes'[t] # <<>>
             /\ EndsAbsentStatus(outcomes'[t][Len(outcomes'[t])])) =>
            /\ pc'[t] = "idle" /\ result'[t] = "absent"
            /\ authCalls'[t] = authCalls[t] /\ refreshCalls'[t] = refreshCalls[t]
            /\ sleeps'[t] = sleeps[t]
            /\ session' = session /\ sessOpen' = sessOpen /\ executor' = executor
            /\ token' = token]_vars

\* a request that failed once, slept, and then got a 500 has returned absent
C15_Witness ==
  \E t \in Observed :
    /\ Returned(t) /\ outcomes[t] = <<"fail", "500">>
    /\ sleeps[t] = <<1>> /\ result[t] = "absent" /\ authCalls[t] = 0

\* ---- the refresh tick -------------------------------------------------------------

\* the readings with every pollutant absent
AllAbsent == [k \in PollutantKeys |-> NoReading]

\* the tick has ended (and no other has begun)
TickEnded == tickResult # "none"

\* every device of the list carries a serial number
WellFormed(content) ==
  \A i \in 1..Len(content) : "serialNumber" \in DOMAIN content[i].m

\* the readings query q of the tick should have left in the snapshot
Expected(q) ==
  IF q.res = "json" /\ q.body.tag = "raw" THEN process_sensor_data(q.body).data
  ELSE AllAbsent

\* C11: a tick whose device list arrived, in any order, and in which a
\* sensor query failed with an error (such as ApiConnectionError after 3
\* failed attempts) has succeeded when it ends: the published snapshot has
\* the listed devices as content, for every queried device the readings its
\* own response gave, and all five readings absent for the device whose
\* query failed.
C11_SensorFailureIsolated ==
  (/\ TickEnded /\ devices_data # NoneValue
   /\ WellFormed(ContentOf(devices_data))
   /\ \E i \in 1..Len(queried) : queried[i].res \in Raised) =>
     /\ tickResult = "ok"
     /\ data # NoneValue
     /\ Len(data.content) = Len(ContentOf(devices_data))
     /\ \A i \in 1..Len(data.content) :
          data.content[i].m["serialNumber"] = ContentOf(devices_data)[i].m["serialNumber"]
     /\ \A i \in 1..Len(queried) :
          /\ queried[i].serial \in DOMAIN data.entries
          /\ data.entries[queried[i].serial].sensors = Expected(queried[i])
          /\ queried[i].res \in Raised =>
               data.entries[queried[i].serial].sensors = AllAbsent

\* A2, listed first, failed on all 3 attempts; A1 answered; the tick
\* published A1's readings and an all-absent entry for A2
C11_Witness ==
  /\ TickEnded /\ tickResult = "ok"
  /\ Len(queried) = 2
  /\ queried[1].serial = "A2" /\ queried[1].res = "ApiConnectionError"
  /\ queried[2].serial = "A1" /\ queried[2].res = "json" /\ queried[2].body.tag = "raw"
  /\ data.entries["A1"].sensors["PM2_5"] = 2
  /\ data.entries["A2"].sensors = AllAbsent

\* C12: a tick in which get_devices returned absent has ended as a failed
\* update, has issued no sensor query, and has left the snapshot readers
\* see as it was when the tick began.
C12_DevicesAbsentFailsTick ==
  (TickEnded /\ devices_data = NoneValue) =>
    /\ tickResult \in UpdateFailures
    /\ queried = <<>>
    /\ data = tickBase

\* a tick failed for want of a device list after an earlier tick had
\* published a snapshot with a device in it
C12_Witness ==
  /\ TickEnded /\ devices_data = NoneValue
  /\ tickResult \in UpdateFailures
  /\ data # NoneValue /\ data.content # <<>> /\ data = tickBase

\* C13: in the snapshot readers see, every device of content has an entry
\* under its serial number that holds all five pollutant keys and the
\* device's identity record.
C13_SnapshotComplete ==
  data # NoneValue =>
    \A i \in 1..Len(data.content) :
      /\ "serialNumber" \in DOMAIN data.content[i].m
      /\ data.content[i].m["serialNumber"].v \in DOMAIN data.entries
      /\ LET sn == data.content[i].m["serialNumber"].v
         IN /\ DOMAIN data.entries[sn].sensors = PollutantKeys
            /\ data.entries[sn].device_info.serial = sn
            /\ data.entries[sn].device_info.model = ModelOf(data.content[i])

\* a tick has the first of two devices merged and waits for the readings
\* of the second, while readers see the complete snapshot of an earlier tick
C13_Witness ==
  /\ cpc = "sensor" /\ idx = 2
  /\ DOMAIN processed_data.entries # {}
  /\ data # NoneValue /\ Len(data.content) = 2
  /\ \E i \in 1..2 : ~HasSensors(data.content[i])

\* ---- the client's operations ----------------------------------------------------------

\* the operation of the last invocation has returned
OperationReturned == cpc = "idle" /\ invoked.op # "none" /\ wres # "none"

Getters == {"get_devices", "get_sensor_data", "get_aqi"}

\* C14: an operation whose request ended with a soft HTTP failure returns
\* absent, and an AuthenticationError or ApiConnectionError raised by the
\* request pipeline leaves the operation as that error.
C14_ErrorsPropagate ==
  OperationReturned =>
    /\ (wres = "absent" /\ outcomes[Main][Len(outcomes[Main])] = "500") =>
         wret = NoneValue
    /\ wres \in {"AuthenticationError", "ApiConnectionError"} => wret = Raise(wres)

\* C14 (amended): no error leaves an operation. get_devices,
\* get_sensor_data and get_aqi return absent for a soft HTTP failure and
\* also when the request pipeline raises AuthenticationError or
\* ApiConnectionError; set_power_status, set_fan_speed and set_auto_mode
\* return true for a soft HTTP failure and false when the pipeline raises.
C14_ErrorsAbsorbed ==
  OperationReturned =>
    /\ wret.tag # "raised"
    /\ (invoked.op \in Getters /\ wres \in {"absent"} \cup Raised) => wret = NoneValue
    /\ invoked.op \notin Getters => wret = Bool(wres \notin Raised)

\* set_power_status returned false after the pipeline gave up with
\* ApiConnectionError
C14_Witness ==
  /\ OperationReturned /\ invoked.op = "set_power_status"
  /\ wres = "ApiConnectionError" /\ outcomes[Main] = <<"fail", "fail", "fail">>
  /\ wret = Bool(FALSE)

\* C19: set_auto_mode(serial, false, silent) passes to the request pipeline
\* exactly what set_fan_speed(serial, 1) passes (POST, the device's
\* set-fan-speed action, fanSpeed 1), never the enable-smart-mode action,
\* and returns what set_fan_speed returns: true unless the pipeline raised.
C19_AutoOffIsFanSpeedOne ==
  (invoked.op = "set_auto_mode" /\ ~invoked.auto) =>
    /\ request.method = "POST"
    /\ request.serial = invoked.serial
    /\ request.path = "actions/set-fan-speed"
    /\ request.json = <<"fanSpeed", 1>>
    /\ request = RequestOf(SetFanSpeed(invoked.serial, 1))
    /\ OperationReturned => wret = Bool(wres \notin Raised)

\* set_auto_mode(A2, false, silent) got a 401, authenticated again, got a
\* 204 and returned true
C19_Witness ==
  /\ OperationReturned /\ invoked.op = "set_auto_mode" /\ ~invoked.auto
  /\ invoked.silent /\ invoked.serial = "A2"
  /\ outcomes[Main] = <<"401", "204">> /\ wret = Bool(TRUE)

\* ---- setup --------------------------------------------------------------------------------

\* C20: once authenticate() has failed in async_setup_entry, no coordinator
\* is created and no snapshot is published; the client is being closed, and
\* ConfigEntryNotReady is raised only after close() has returned, with the
\* session closed and the executor shut down.
C20_AuthFailureNotReady ==
  setupAuth = "failed" =>
    /\ ~coordinator /\ ~ready
    /\ data = NoneValue /\ tickResult = "none"
    /\ cpc \in {"setup_close", "not_ready"}
    /\ op[Main] = "close"
    /\ cpc = "not_ready" =>
         /\ pc[Main] = "idle" /\ result[Main] = "ok"
         /\ executor = "shutdown" /\ ~SessionIsOpen

\* setup has raised ConfigEntryNotReady after a failed authenticate()
C20_Witness ==
  /\ setupAuth = "failed" /\ cpc = "not_ready"
  /\ executor = "shutdown" /\ token = NoToken

\* ---- authentication failures during a tick --------------------------------------------

\* a request of the tick that has ended was left by AuthenticationError:
\* get_devices (the tick stopped there) or one of the sensor queries
AuthFailedInTick ==
  \/ devices_data = NoneValue /\ queried = <<>> /\ wres = "AuthenticationError"
  \/ \E i \in 1..Len(queried) : queried[i].res = "AuthenticationError"

\* the tick waits in the fallback authenticate() of a refresh_token that was
\* rejected, for the auth lock its own coroutine holds
TickStuckInAuth ==
  /\ cpc \in {"devices", "sensor"}
  /\ pc[Main] = "auth_lock" /\ auth_lock = Main

\* C21: a tick in which authentication fails terminates, and it terminates
\* as a failed update with the snapshot readers see left as it was when the
\* tick began.
C21_AuthFailureFailsTick ==
  /\ ~TickStuckInAuth
  /\ (TickEnded /\ AuthFailedInTick) =>
       tickResult \in UpdateFailures /\ data = tickBase

\* ---- the retry budget under mixed outcomes ---------------------------------------------

\* the number of 401 responses among the outcomes s
RECURSIVE Count401(_)
Count401(s) ==
  IF s = <<>> THEN 0
  ELSE (IF Head(s) = "401" THEN 1 ELSE 0) + Count401(Tail(s))

\* the outcomes s are 401 responses and transport failures only
Mixed(s) == \A i \in 1..Len(s) : s[i] \in {"401", "fail"}

\* the request has issued no more than 3 attempts and has re-authenticated
\* once for each 401 it got, no more than 3 times
WithinBudget ==
  (op[Main] = "request" /\ Mixed(outcomes[Main])) =>
    /\ Len(outcomes[Main]) <= 3
    /\ Count401(outcomes[Main]) <= 3
    /\ authCalls[Main] <= Count401(outcomes[Main]) + 1
    /\ entry[Main] = "none" => authCalls[Main] = Count401(outcomes[Main])

\* C22: a request whose attempts end in 401 responses and transport
\* failures, in any mix, issues at most 3 attempts and re-authenticates at
\* most 3 times, and once an attempt is in flight the request terminates:
\* it returns a body or absent, or raises.
C22_BoundedRetries ==
  /\ []WithinBudget
  /\ (op[Main] = "request" /\ pc[Main] = "http_wait") ~> (pc[Main] = "idle")

\* a request got a 401, re-authenticated, got two transport failures with
\* a 2 s wait between them, and has raised ApiConnectionError after 3 attempts
C22_Witness ==
  /\ Returned(Main) /\ outcomes[Main] = <<"401", "fail", "fail">>
  /\ authCalls[Main] = 1 /\ sleeps[Main] = <<2>>
  /\ result[Main] = "ApiConnectionError"

\* ---- the session of the next attempt ---------------------------------------------------

\* the last of the outcomes s
Last(s) == s[Len(s)]

\* in this step the request of task t issues an attempt that follows an
\* attempt which ended with status st
IssuesAfter(t, st) ==
  /\ op[t] = "request" /\ pc[t] # "http_wait" /\ pc'[t] = "http_wait"
  /\ outcomes[t] # <<>> /\ Last(outcomes[t]) = st

\* the attempt goes out on an open session other than the one the request
\* held, and that one is closed
OnNewSession(t) ==
  /\ client_session'[t] # client_session[t]
  /\ client_session[t] \notin sessOpen'
  /\ client_session'[t] \in sessOpen' /\ client_session'[t] = session'

\* C23: the attempt that follows a 401 response, and the attempt that
\* follows a transport failure, goes out on a newly created session, and
\* the session the failure occurred on has been closed.
C23_NewSessionAfterFailure ==
  [][\A t \in Observed :
       (IssuesAfter(t, "401") \/ IssuesAfter(t, "fail")) => OnNewSession(t)]_vars

\* C23 (amended): the attempt that follows a transport failure goes out on
\* an open session other than the one the failure occurred on, which has
\* been closed; the attempt that follows a 401 response goes out on the
\* session the 401 came back on, which is still open, and the step that
\* issues it closes and creates no session.
C23_NewSessionAfterTransportFailure ==
  [][\A t \in Observed :
       /\ IssuesAfter(t, "fail") => OnNewSession(t)
       /\ IssuesAfter(t, "401") =>
            /\ client_session'[t] = client_session[t]
            /\ client_session[t] \in sessOpen
            /\ sessOpen' = sessOpen /\ session' = session]_vars

\* a request got a 401 and then a transport failure on session 1, which is
\* closed, and has its third attempt in flight on session 2
C23_Witness ==
  \E t \in Observed :
    /\ op[t] = "request" /\ pc[t] = "http_wait"
    /\ outcomes[t] = <<"401", "fail">> /\ attempt[t] = 2
    /\ client_session[t] = 2 /\ session = 2 /\ sessOpen = {2}

\* ---- locks during backoff and during an attempt ----------------------------------------

\* task t sleeps in the retry backoff (line 155) or has an HTTP attempt in
\* flight (line 130)
Suspended(t) == op[t] = "request" /\ pc[t] \in {"sleep", "http_wait"}

\* C24: a request that sleeps in the retry backoff or has an HTTP attempt
\* in flight holds neither the session lock nor the auth lock, so that
\* another request which waits for the session lock, or for the auth lock
\* to validate its token, finds it free.
C24_NoLockWhileSuspended ==
  \A t \in Tasks :
    Suspended(t) =>
      /\ session_lock # t /\ auth_lock # t
      /\ \A u \in Tasks \ {t} :
           /\ pc[u] \in {"sess_lock", "close_lock"} => SessionLockFree
           /\ (pc[u] \in {"auth_lock", "ref_lock"} /\ auth_lock # u) => AuthLockFree

\* while one request sleeps after its first attempt failed, the other has
\* obtained the session and has its first attempt in flight with the
\* client's token
C24_Witness ==
  \E t \in Observed, u \in Tasks :
    /\ u # t /\ Suspended(t) /\ pc[t] = "sleep" /\ outcomes[t] = <<"fail">>
    /\ op[u] = "request" /\ pc[u] = "http_wait" /\ attempt[u] = 0
    /\ client_session[u] = session /\ session \in sessOpen
    /\ headers[u] = token /\ token # NoToken

\* ---- the Authorization header ------------------------------------------------------------

\* in this step the request of task t issues an HTTP attempt
Issues(t) == op[t] = "request" /\ pc[t] # "http_wait" /\ pc'[t] = "http_wait"

\* C25: every HTTP attempt is issued with an Authorization header equal to
\* the token the client holds at that moment, the attempt that follows a
\* 401 with the token just obtained, whatever other requests did in between.
C25_HeaderIsCurrentToken ==
  [][\A t \in Tasks :
       Issues(t) => token' # NoToken /\ headers'[t] = token']_vars

\* ---- the defaults of the device state fields ----------------------------------------------

\* the tick that ended has published its snapshot
TickPublished == TickEnded /\ tickResult = "ok"

\* the devices of the response body as the API delivered them
Delivered(body) ==
  IF body.tag = "dict" /\ "content" \in DOMAIN body.m
  THEN body.m["content"].items
  ELSE <<>>

\* the fields the API delivered for a device with a value other than null
NonNull(device) == {k \in DOMAIN device.m : device.m[k] # Null}

\* C26: in the snapshot a tick has published, every device of content has
\* the fields fanspeed, pecoFilter, mode and online; each field the API
\* delivered with a non-null value has that value, each of the four that
\* was missing or null has its default "1", "0", "manual", "false", and the
\* device has no other field.
C26_DefaultsFilled ==
  TickPublished =>
    /\ Len(data.content) = Len(Delivered(devices_body))
    /\ \A i \in 1..Len(data.content) :
         LET device == data.content[i].m
             sent == Delivered(devices_body)[i]
         IN /\ DOMAIN device = NonNull(sent) \cup {"fanspeed", "pecoFilter", "mode", "online"}
            /\ \A k \in NonNull(sent) : device[k] = sent.m[k]
            /\ "fanspeed" \notin NonNull(sent) => device["fanspeed"] = Str("1")
            /\ "pecoFilter" \notin NonNull(sent) => device["pecoFilter"] = Str("0")
            /\ "mode" \notin NonNull(sent) => device["mode"] = Str("manual")
            /\ "online" \notin NonNull(sent) => device["online"] = Str("false")

\* a tick has published A1, delivered with fan speed "3" and a null mode,
\* next to A2, delivered with all four fields
C26_Witness ==
  /\ TickPublished /\ Len(data.content) = 2
  /\ Delivered(devices_body)[1].m["serialNumber"] = Str("A1")
  /\ Delivered(devices_body)[1].m["mode"] = Null
  /\ data.content[1].m["fanspeed"] = Str("3")
  /\ data.content[1].m["mode"] = Str("manual")
  /\ data.content[1].m["online"] = Str("false")
  /\ data.content[2].m["mode"] = Str("smart")

\* ---- a request that gets nothing but 401 ---------------------------------------------------

All401(s) == s # <<>> /\ \A i \in 1..Len(s) : s[i] = "401"

\* the authenticate() calls the request made for its 401 responses
Reauths(t) == authCalls[t] - (IF entry[t] = "authenticate" THEN 1 ELSE 0)

\* C27: a request whose attempts all came back 401 and that returned
\* without raising has issued 3 attempts, has authenticated again after
\* each of them (after the third one too, with no attempt following), has
\* never slept, and has returned absent, the value a 204 gives; and when
\* all 3 attempts came back 401 the only error it can end with is the
\* AuthenticationError of a rejected re-authentication.
C27_All401ReturnsAbsent ==
  \A t \in Observed :
    (Returned(t) /\ All401(outcomes[t])) =>
      /\ Len(outcomes[t]) <= 3
      /\ result[t] \in {"absent", "AuthenticationError", "RuntimeError"}
      /\ result[t] = "absent" =>
           Len(outcomes[t]) = 3 /\ Reauths(t) = 3 /\ sleeps[t] = <<>>
      /\ Len(outcomes[t]) = 3 => result[t] \in {"absent", "AuthenticationError"}

\* a request that found its token fresh got 401 three times and has
\* returned absent after its third re-authentication
C27_Witness ==
  \E t \in Observed :
    /\ Returned(t) /\ outcomes[t] = <<"401", "401", "401">>
    /\ entry[t] = "none" /\ authCalls[t] = 3 /\ result[t] = "absent"

\* ---- the credential provider after a retry ---------------------------------------------------

\* in this step task t, waiting to authenticate or to refresh, gets the
\* auth lock
TakesAuthLock(t) ==
  /\ pc[t] \in {"auth_lock", "ref_lock"} /\ auth_lock # t
  /\ pc'[t] # pc[t]

\* C28: on a client whose requests have closed and rebuilt the session in
\* the retry loop (and that was never closed by its owner), an
\* authenticate(), a token refresh and a 401 re-authentication still run
\* the credential provider: the coroutine that gets the auth lock goes on
\* to await the provider's answer.
C28_ProviderRunsAfterRetry ==
  [][TakesAuthLock(Main) => pc'[Main] \in {"auth_call", "ref_call"}]_vars

\* ---- the session of an attempt in flight -------------------------------------------------------

\* in this step the close() of request u's retry branch (line 156) gets the
\* session lock
RetryCloses(u) ==
  op[u] = "request" /\ pc[u] = "close_lock" /\ pc'[u] # "close_lock"

\* C29: the close() in the retry branch of one request never closes the
\* session on which the other request has an HTTP attempt in flight.
C29_InFlightSessionStaysOpen ==
  [][\A t, u \in Tasks :
       (/\ t # u /\ RetryCloses(u)
        /\ op[t] = "request" /\ pc[t] = "http_wait"
        /\ client_session[t] \in sessOpen) =>
         client_session[t] \in sessOpen']_vars

\* ---- two requests that both find the token absent or stale -------------------------------------

\* in this step task t, which ensure_token_valid sent to authenticate() or
\* refresh_token(), gets the auth lock (and is not cancelled)
EnsureTakesLock(t) ==
  /\ cont[t] = "ensure" /\ pc[t] \in {"auth_lock", "ref_lock"}
  /\ AuthLockFree
  /\ pc'[t] # pc[t] /\ result'[t] # "cancelled"

\* C30: of two requests that found the token absent or inside the margin,
\* the one that gets the auth lock second, when the client holds a valid
\* token again, goes on to the session without a provider call of its own.
C30_ProviderInvokedOnce ==
  [][\A t \in Observed :
       (EnsureTakesLock(t) /\ EnsureBranch = "none") =>
         pc'[t] = "sess_lock" /\ auth_lock' = Free]_vars

\* C30 (amended): a request that found the token absent or inside the
\* margin makes its own call once it gets the auth lock, also when another
\* request has obtained a valid token in the meantime: it never goes on to
\* the session from there, and with the executor running (and, for a
\* refresh, a provider handle) it holds the lock and awaits the provider,
\* so the two requests invoke the provider one after the other.
C30_EachRequestInvokesProvider ==
  [][\A t \in Observed :
       EnsureTakesLock(t) =>
         /\ pc'[t] # "sess_lock"
         /\ token' = token /\ token_expiration' = token_expiration
         /\ (executor = "up" /\ (pc[t] = "ref_lock" => cognito)) =>
              /\ pc'[t] = (IF pc[t] = "auth_lock" THEN "auth_call" ELSE "ref_call")
              /\ auth_lock' = t]_vars

\* the request found the token absent on entry and awaits the provider,
\* holding the auth lock, although the other request has since obtained a
\* token that is valid
C30_Witness ==
  \E t \in Observed :
    /\ op[t] = "request" /\ entry[t] = "authenticate" /\ cont[t] = "ensure"
    /\ pc[t] = "auth_call" /\ auth_lock = t
    /\ token # NoToken /\ EnsureBranch = "none"

\* ---- what the setters return --------------------------------------------------------------------

Setters == {"set_power_status", "set_fan_speed", "set_auto_mode"}

\* C31: set_power_status, set_fan_speed and set_auto_mode return a boolean:
\* true exactly when the request pipeline returned (a body or absent), so
\* also after a 500 and after three 401 responses in a row, and false
\* exactly when the pipeline raised.
C31_SetterTrueUnlessRaised ==
  (OperationReturned /\ invoked.op \in Setters) =>
    /\ wret \in {Bool(TRUE), Bool(FALSE)}
    /\ wret = Bool(TRUE) <=> wres \in {"json", "absent"}
    /\ wret = Bool(FALSE) <=>
         wres \in {"ApiConnectionError", "AuthenticationError", "RuntimeError"}
    /\ (outcomes[Main] # <<>> /\ Last(outcomes[Main]) = "500") => wret = Bool(TRUE)
    /\ (outcomes[Main] = <<"401", "401", "401">> /\ wres = "absent") => wret = Bool(TRUE)

\* set_fan_speed has returned true after three 401 responses in a row
C31_Witness ==
  /\ OperationReturned /\ invoked.op = "set_fan_speed"
  /\ outcomes[Main] = <<"401", "401", "401">> /\ wres = "absent"
  /\ wret = Bool(TRUE)

\* ---- which devices are asked for readings ----------------------------------------------------

\* the device comes with a model name (subProduct.name)
Named(device) ==
  "subProduct" \in DOMAIN device.m /\ "name" \in DOMAIN device.m["subProduct"].m

\* the serial numbers of the sensor queries of the tick, in order
QueriedSerials == [j \in 1..Len(queried) |-> queried[j].serial]

\* the serial numbers of the devices of content that satisfy Test, in order
SerialsWhere(content, Test(_)) ==
  LET kept == SelectSeq(content, Test)
  IN [j \in 1..Len(kept) |-> kept[j].m["serialNumber"].v]

\* the model name is present and is not "Molekule Air"
NotAir(device) ==
  Named(device) /\ device.m["subProduct"].m["name"] # Str("Molekule Air")

\* the model name is present and is neither "Molekule Air" nor "Unknown Model"
Supported(device) ==
  NotAir(device) /\ device.m["subProduct"].m["name"] # Str("Unknown Model")

\* the devices of the published snapshot that were not queried have all
\* five readings absent
UnqueriedAbsent ==
  \A i \in 1..Len(data.content) :
    LET sn == data.content[i].m["serialNumber"].v
    IN (\A j \in 1..Len(queried) : queried[j].serial # sn) =>
         data.entries[sn].sensors = AllAbsent

\* C32: a tick that has published its snapshot has called get_sensor_data
\* once for each device whose model name is present and is not "Molekule
\* Air", in list order, and for no other device; every other device has
\* the all-absent readings in the snapshot.
C32_QueriedUnlessAir ==
  TickPublished =>
    /\ QueriedSerials = SerialsWhere(data.content, NotAir)
    /\ UnqueriedAbsent

\* C32 (amended): a tick that has published its snapshot has called
\* get_sensor_data once for each device whose model name is present and is
\* neither "Molekule Air" nor "Unknown Model", in list order, and for no
\* other device; every other device has the all-absent readings in the
\* snapshot; and while a tick runs, the queries it has made and the one in
\* progress are for such devices.
C32_QueriedIfSupported ==
  /\ TickPublished =>
       /\ QueriedSerials = SerialsWhere(data.content, Supported)
       /\ UnqueriedAbsent
  /\ cpc = "sensor" =>
       /\ Supported(processed_data.content[idx])
       /\ call = GetSensorData(processed_data.content[idx].m["serialNumber"].v)
       /\ QueriedSerials = SerialsWhere(SubSeq(processed_data.content, 1, idx - 1), Supported)

\* a tick has published a "Molekule Air" listed before A1: one query, for
\* A1, and the all-absent readings for the other
C32_Witness ==
  /\ TickPublished /\ Len(data.content) = 2
  /\ Named(data.content[1])
  /\ data.content[1].m["subProduct"] = SubProduct("Molekule Air")
  /\ data.content[2].m["serialNumber"] = Str("A1")
  /\ QueriedSerials = <<"A1">>
  /\ data.entries["A3"].sensors = AllAbsent
  /\ data.entries["A1"].sensors["PM2_5"] = 2

====
